---------------------------- MODULE Spec2Model ----------------------------
(***************************************************************************)
(* A model of alpdesign/mlp.py: the deep-ensemble predictor, its reducer,  *)
(* the adversarial negative-log-likelihood loss, the training loop and the *)
(* Bayesian-optimisation loop.                                             *)
(*                                                                         *)
(* Four specifications share the module, one per group of functions:       *)
(*   SpecShuffle  shuffle_in_unison                                        *)
(*   SpecEns      EnsembleBlock.__call__, model_reduce,                    *)
(*                _deep_ensemble_loss, _adv_loss_func                      *)
(*   SpecTrain    ensemble_train (with its nested train_step)              *)
(*   SpecBO       bayes_opt (with its nested step)                         *)
(* Each leaves the variables of the other groups at their initial values.  *)
(*                                                                         *)
(* Arithmetic is exact: a number is a rational n/d in lowest terms, and    *)
(* the one non-finite value (IEEE NaN, +Inf, -Inf) is written 0/0.         *)
(* Floating-point rounding is not modelled.  Indices are 1-based.          *)
(***************************************************************************)
EXTENDS Integers, Sequences, FiniteSets, Bags, TLC

VARIABLES
    \* shuffle_in_unison(key, a, b)
    sh_pc, a, b, p, sh_ret,
    \* EnsembleBlock.__call__, model_reduce, _deep_ensemble_loss, _adv_loss_func
    ens_pc, config, ens_params, x, ens_labels, out, joint,
    grad_inputs, seqs_, adv_ret,
    \* ensemble_train(key, forward, seqs, labels, val_seqs, val_labels)
    tr_pc, seqs, labels, val_seqs, val_labels, val_kind,
    params, opt_state, losses, val_losses,
    outer_pos, inner_pos, i, shuffle_seqs, shuffle_labels,
    seq, label, loss, val_loss,
    log, shuffles,
    \* bayes_opt(f, params, labels)
    bo_pc, bo_opt_state, step_pos, step_idx, bo_loss, final_vec, bo_log

sh_vars == <<sh_pc, a, b, p, sh_ret>>

ens_vars == <<ens_pc, config, ens_params, x, ens_labels, out, joint,
              grad_inputs, seqs_, adv_ret>>

\* log and shuffles are history variables: the train_step calls made so far
\* and the shuffled order of every epoch so far
tr_vars == <<tr_pc, seqs, labels, val_seqs, val_labels, val_kind,
             params, opt_state, losses, val_losses,
             outer_pos, inner_pos, i, shuffle_seqs, shuffle_labels,
             seq, label, loss, val_loss, log, shuffles>>

\* bo_log is a history variable: the calls of step made so far
bo_vars == <<bo_pc, bo_opt_state, step_pos, step_idx, bo_loss, final_vec, bo_log>>

vars == <<sh_vars, ens_vars, tr_vars, bo_vars>>

\* what the actions of one group leave alone
sh_frame == <<ens_vars, tr_vars, bo_vars>>

ens_frame == <<sh_vars, tr_vars, bo_vars>>

tr_frame == <<sh_vars, ens_vars, bo_vars>>

bo_frame == <<sh_vars, ens_vars, tr_vars>>

-----------------------------------------------------------------------------
(* Bounds of the model *)

\* longest sequence handed to shuffle_in_unison
MaxLen == 3

\* values the elements of a and b are drawn from
Elems == {0, 1}

\* largest ensemble size (EnsembleBlockConfig.model_number) drawn
MaxModels == 2

\* largest number of rows of an input batch drawn
MaxBatch == 2

\* longest training inputs / labels handed to ensemble_train
MaxTrain == 2

\* longest validation inputs / labels handed to ensemble_train
MaxVal == 2

-----------------------------------------------------------------------------
(* Helpers *)

Range(s) == {s[k] : k \in DOMAIN s}

SeqsUpTo(S, n) == UNION {[1..k -> S] : k \in 0..n}

\* the permutations of 1..n, as sequences
Perms(n) == {q \in [1..n -> 1..n] : \A x1, x2 \in 1..n : x1 # x2 => q[x1] # q[x2]}

-----------------------------------------------------------------------------
(* shuffle_in_unison *)

\* jax.random.permutation(key, n): some permutation of range(n), fixed by key
permutation(n) == Perms(n)

\* the two comprehensions of the return statement, for the permutation q drawn
shuffle_in_unison_unpaired(q, s, t) ==
    << [k \in 1..Len(q) |-> s[q[k]]], [k \in 1..Len(q) |-> t[k]] >>

shuffle_in_unison(q, s, t) ==
    << [k \in 1..Len(q) |-> s[q[k]]], [k \in 1..Len(q) |-> t[q[k]]] >>

NoRet == << <<>>, <<>> >>

ShInit ==
    /\ sh_pc = "call"
    /\ a \in SeqsUpTo(Elems, MaxLen)
    /\ b \in SeqsUpTo(Elems, MaxLen)
    /\ p = <<>>
    /\ sh_ret = NoRet

\* assert len(a) == len(b) fails
ShAssertFail ==
    /\ sh_pc = "call"
    /\ Len(a) # Len(b)
    /\ sh_pc' = "AssertionError"
    /\ UNCHANGED <<a, b, p, sh_ret>>
    /\ UNCHANGED sh_frame

\* the assert passes: draw the permutation, build both arrays
ShReturn ==
    /\ sh_pc = "call"
    /\ Len(a) = Len(b)
    /\ \E q \in permutation(Len(a)) :
          /\ p' = q
          /\ sh_ret' = shuffle_in_unison(q, a, b)
    /\ sh_pc' = "done"
    /\ UNCHANGED <<a, b>>
    /\ UNCHANGED sh_frame

ShNext == ShAssertFail \/ ShReturn


-----------------------------------------------------------------------------
(* Numbers: exact rationals [n, d] in lowest terms with d > 0; the single  *)
(* non-finite value is [n |-> 0, d |-> 0] and absorbs every operation.     *)

RECURSIVE GCD(_, _)
GCD(m, n) == IF n = 0 THEN m ELSE GCD(n, m % n)

AbsInt(n) == IF n < 0 THEN -n ELSE n

SignInt(n) == IF n < 0 THEN -1 ELSE IF n = 0 THEN 0 ELSE 1

NonFinite == [n |-> 0, d |-> 0]

IsFinite(q) == q.d # 0

Rat(n, d) ==
    IF d = 0 THEN NonFinite
    ELSE LET g == GCD(AbsInt(n), AbsInt(d))
         IN  [n |-> SignInt(d) * (n \div g), d |-> AbsInt(d) \div g]

Num(n) == [n |-> n, d |-> 1]

RAdd(q, r) ==
    IF ~IsFinite(q) \/ ~IsFinite(r) THEN NonFinite
    ELSE LET l == (q.d \div GCD(q.d, r.d)) * r.d
         IN  Rat(q.n * (l \div q.d) + r.n * (l \div r.d), l)

RNeg(q) == [n |-> -q.n, d |-> q.d]

RSub(q, r) == RAdd(q, RNeg(r))

RMul(q, r) ==
    IF ~IsFinite(q) \/ ~IsFinite(r) THEN NonFinite
    ELSE LET g1 == GCD(AbsInt(q.n), r.d)
             g2 == GCD(AbsInt(r.n), q.d)
         IN  Rat((q.n \div g1) * (r.n \div g2), (q.d \div g2) * (r.d \div g1))

\* x / 0 is Inf or NaN in IEEE arithmetic: non-finite either way
RDiv(q, r) ==
    IF ~IsFinite(q) \/ ~IsFinite(r) \/ r.n = 0 THEN NonFinite
    ELSE RMul(q, Rat(r.d, r.n))

RAbs(q) == [n |-> AbsInt(q.n), d |-> q.d]

\* jnp.sign: -1, 0 or 1, and NaN for NaN
RSign(q) == IF IsFinite(q) THEN Num(SignInt(q.n)) ELSE NonFinite

RECURSIVE RSum(_)
RSum(s) == IF s = <<>> THEN Num(0) ELSE RAdd(Head(s), RSum(Tail(s)))

-----------------------------------------------------------------------------
(* Arrays: [shape, data], data in row-major order.                         *)

RECURSIVE Prod(_)
Prod(s) == IF s = <<>> THEN 1 ELSE Head(s) * Prod(Tail(s))

Most(s) == SubSeq(s, 1, Len(s) - 1)

Last(s) == s[Len(s)]

Min(m, n) == IF m < n THEN m ELSE n

RECURSIVE Concat(_)
Concat(ss) == IF ss = <<>> THEN <<>> ELSE Head(ss) \o Concat(Tail(ss))

Array(shape, data) == [shape |-> shape, data |-> data]

\* x[k] for a jax array: an index past the end is clamped to the last slice
Index0(arr, k) ==
    LET inner == Prod(Tail(arr.shape))
        c     == Min(k, arr.shape[1])
    IN  Array(Tail(arr.shape), SubSeq(arr.data, (c - 1) * inner + 1, c * inner))

\* jnp.array([...]) of equally shaped arrays: a new leading axis
Stack(arrs) ==
    Array(<<Len(arrs)>> \o arrs[1].shape, Concat([k \in 1..Len(arrs) |-> arrs[k].data]))

\* arr[..., c]
Select(arr, c) ==
    LET w == Last(arr.shape)
    IN  Array(Most(arr.shape),
              [k \in 1..(Len(arr.data) \div w) |-> arr.data[(k - 1) * w + c]])

\* jnp.mean(arr, axis=0)
MeanAxis0(arr) ==
    LET m     == arr.shape[1]
        inner == Prod(Tail(arr.shape))
    IN  Array(Tail(arr.shape),
              [k \in 1..inner |->
                  RDiv(RSum([r \in 1..m |-> arr.data[(r - 1) * inner + k]]), Num(m))])

\* elementwise u + v, u - v, u * v of equally shaped arrays
AddArr(u, v) == Array(u.shape, [k \in 1..Len(u.data) |-> RAdd(u.data[k], v.data[k])])

SubArr(u, v) == Array(u.shape, [k \in 1..Len(u.data) |-> RSub(u.data[k], v.data[k])])

MulArr(u, v) == Array(u.shape, [k \in 1..Len(u.data) |-> RMul(u.data[k], v.data[k])])

Square(u) == MulArr(u, u)

\* c * jnp.sign(u) for a scalar c
ScaledSign(c, u) == Array(u.shape, [k \in 1..Len(u.data) |-> RMul(c, RSign(u.data[k]))])

-----------------------------------------------------------------------------
(* EnsembleBlock, model_forward *)

\* EnsembleBlockConfig defaults
DefaultShape == <<2>>

\* hk.nets.MLP((2,)): one Linear layer of 2 outputs over the last axis, no
\* activation after the final layer.  member = [w |-> D x 2 matrix, b |-> 2-vector]
MLP(member, arr) ==
    LET dim  == Last(arr.shape)
        rows == Len(arr.data) \div dim
        o    == Len(member.b)
    IN  Array(Most(arr.shape) \o <<o>>,
              [k \in 1..(rows * o) |->
                  LET r == ((k - 1) \div o) + 1
                      c == ((k - 1) % o) + 1
                  IN  RAdd(RSum([d \in 1..dim |->
                                   RMul(arr.data[(r - 1) * dim + d], Num(member.w[d][c]))]),
                           Num(member.b[c]))])

\* a member applied to the whole input instead of its own slice
EnsembleBlock_call_whole(cfg, prms, arr) ==
    Stack([k \in 1..cfg.model_number |-> MLP(prms[k], arr)])

\* EnsembleBlock.__call__: member k is applied to x[k]
EnsembleBlock_call(cfg, prms, arr) ==
    Stack([k \in 1..cfg.model_number |-> MLP(prms[k], Index0(arr, k))])

model_forward(cfg, prms, arr) == EnsembleBlock_call(cfg, prms, arr)

-----------------------------------------------------------------------------
(* model_reduce *)

\* the spread term without the square of the member means
model_reduce_nosquare(o) ==
    LET mu == MeanAxis0(Select(o, 1))
        sd == SubArr(MeanAxis0(AddArr(Select(o, 2), Select(o, 1))), Square(mu))
    IN  <<mu, sd>>

model_reduce(o) ==
    LET mu == MeanAxis0(Select(o, 1))
        sd == SubArr(MeanAxis0(AddArr(Select(o, 2), Square(Select(o, 1)))), Square(mu))
    IN  <<mu, sd>>

-----------------------------------------------------------------------------
(* _deep_ensemble_loss, _adv_loss_func *)

(* A loss value is kept unevaluated: the bag of its per-member terms        *)
(* [r, s], standing for the sum of 0.5*log(s) + 0.5*r^2/s with              *)
(* r = |label - mean| and s = |spread|.  Adding two losses adds the bags.   *)
(* A term with s = 0 (log 0, division by 0) or a non-finite r or s makes    *)
(* the whole sum non-finite: [fin |-> FALSE].                               *)

NonFiniteLoss == [fin |-> FALSE, terms |-> EmptyBag]

RECURSIVE BagOfSeq(_)
BagOfSeq(s) == IF s = <<>> THEN EmptyBag ELSE SetToBag({Head(s)}) (+) BagOfSeq(Tail(s))

TermFinite(t) == IsFinite(t.r) /\ IsFinite(t.s) /\ t.s.n # 0

LossOfTerms(ts) ==
    IF \A k \in DOMAIN ts : TermFinite(ts[k])
    THEN [fin |-> TRUE, terms |-> BagOfSeq(ts)]
    ELSE NonFiniteLoss

LossAdd(l1, l2) ==
    IF l1.fin /\ l2.fin THEN [fin |-> TRUE, terms |-> l1.terms (+) l2.terms]
    ELSE NonFiniteLoss

\* jnp.sum(0.5*log|stds| + 0.5*(labels-means)**2/|stds|, axis=0), for seqs of
\* rank 2: means and stds then have one entry per member
_deep_ensemble_loss(cfg, prms, xs, ys) ==
    LET o     == model_forward(cfg, prms, xs)
        means == Select(o, 1)
        stds  == Select(o, 2)
    IN  LossOfTerms([k \in 1..Len(means.data) |->
            [r |-> RAbs(RSub(ys[k], means.data[k])), s |-> RAbs(stds.data[k])]])

(* jax.grad(_deep_ensemble_loss, 2): the derivative of the sum above with   *)
(* respect to seqs.  With r = label - mean of member k,                     *)
(*    dL/dmean_k   = -r / |s|                                               *)
(*    dL/dspread_k = sign(s) * (|s| - r^2) / (2 s^2)                        *)
(* and member k reads row Min(k, rows) of seqs through its Linear layer, so *)
(* coordinate d of that row receives dL/dmean_k * w[d][1] +                 *)
(* dL/dspread_k * w[d][2].  A zero spread makes both factors non-finite.    *)
GradInputs(cfg, prms, xs, ys) ==
    LET o     == model_forward(cfg, prms, xs)
        means == Select(o, 1)
        stds  == Select(o, 2)
        rows  == xs.shape[1]
        dim   == xs.shape[2]
        dmean(k) == RDiv(RNeg(RSub(ys[k], means.data[k])), RAbs(stds.data[k]))
        dsprd(k) ==
            LET r  == RSub(ys[k], means.data[k])
                sk == stds.data[k]
            IN  RDiv(RMul(RSign(sk), RSub(RAbs(sk), RMul(r, r))),
                     RMul(Num(2), RMul(sk, sk)))
        part(k, d, row) ==
            IF Min(k, rows) = row
            THEN RAdd(RMul(dmean(k), Num(prms[k].w[d][1])),
                      RMul(dsprd(k), Num(prms[k].w[d][2])))
            ELSE Num(0)
    IN  Array(xs.shape,
              [j \in 1..(rows * dim) |->
                  LET row == ((j - 1) \div dim) + 1
                      d   == ((j - 1) % dim) + 1
                  IN  RSum([k \in 1..cfg.model_number |-> part(k, d, row)])])

\* epsilon = 1e-5
epsilon == Rat(1, 100000)

\* both terms evaluated on the perturbed batch
_adv_loss_func_both_perturbed(cfg, prms, xs, ys) ==
    LET g  == GradInputs(cfg, prms, xs, ys)
        s_ == AddArr(xs, ScaledSign(epsilon, g))
    IN  [grad_inputs |-> g,
         seqs_       |-> s_,
         ret         |-> LossAdd(_deep_ensemble_loss(cfg, prms, s_, ys),
                                 _deep_ensemble_loss(cfg, prms, s_, ys))]

\* the locals and the result of _adv_loss_func
_adv_loss_func(cfg, prms, xs, ys) ==
    LET g  == GradInputs(cfg, prms, xs, ys)
        s_ == AddArr(xs, ScaledSign(epsilon, g))
    IN  [grad_inputs |-> g,
         seqs_       |-> s_,
         ret         |-> LossAdd(_deep_ensemble_loss(cfg, prms, xs, ys),
                                 _deep_ensemble_loss(cfg, prms, s_, ys))]

-----------------------------------------------------------------------------
(* SpecEns: the predictor, the reducer and the losses on drawn inputs *)

\* parameters of one member over inputs of dimension 2: w[d] = <<to mean, to spread>>
MemberChoices ==
    { [w |-> << <<1, 1>>,  <<0, 1>>  >>, b |-> <<0, 1>>],
      [w |-> << <<1, -1>>, <<0, 0>>  >>, b |-> <<0, 0>>],
      [w |-> << <<0, 1>>,  <<1, -1>> >>, b |-> <<1, 0>>],
      [w |-> << <<-1, 0>>, <<0, 0>>  >>, b |-> <<0, 2>>] }

\* input vectors (the rows of a batch)
RowVals == { <<0, 0>>, <<1, 0>>, <<2, 1>> }

LabelVals == {0, 1}

NumSeq(s) == [k \in DOMAIN s |-> Num(s[k])]

\* a batch of rows as a rank-2 array
Batch(rows) == Array(<<Len(rows), Len(rows[1])>>, NumSeq(Concat(rows)))

Batches == {Batch(rows) : rows \in UNION {[1..n -> RowVals] : n \in 1..MaxBatch}}

\* the batch once per member: the rank-3 input of shape [ensemble_num, *seqs.shape]
Replicate(arr, m) == Stack([k \in 1..m |-> arr])

\* jnp.tile(label, m)
TileLabel(y, m) == [k \in 1..m |-> Num(y)]

NoArray == Array(<<>>, <<>>)

EnsInit ==
    /\ ens_pc = "call"
    /\ config \in [shape : {DefaultShape}, model_number : 1..MaxModels]
    /\ ens_params \in [1..config.model_number -> MemberChoices]
    /\ \E bt \in Batches : x \in {bt, Replicate(bt, config.model_number)}
    /\ \E y \in LabelVals : ens_labels = TileLabel(y, config.model_number)
    /\ out = NoArray
    /\ joint = <<NoArray, NoArray>>
    /\ grad_inputs = NoArray
    /\ seqs_ = NoArray
    /\ adv_ret = NonFiniteLoss

\* out = forward.apply(params, x)
EnsForward ==
    /\ ens_pc = "call"
    /\ out' = model_forward(config, ens_params, x)
    /\ ens_pc' = "forwarded"
    /\ UNCHANGED <<config, ens_params, x, ens_labels, joint, grad_inputs, seqs_, adv_ret>>
    /\ UNCHANGED ens_frame

\* joint_out = model_reduce(out)
EnsReduce ==
    /\ ens_pc = "forwarded"
    /\ joint' = model_reduce(out)
    /\ ens_pc' = "reduced"
    /\ UNCHANGED <<config, ens_params, x, ens_labels, out, grad_inputs, seqs_, adv_ret>>
    /\ UNCHANGED ens_frame

\* _adv_loss_func(forward, params, x, labels) on a rank-2 batch
EnsAdvLoss ==
    /\ ens_pc = "reduced"
    /\ Len(x.shape) = 2
    /\ LET r == _adv_loss_func(config, ens_params, x, ens_labels)
       IN  /\ grad_inputs' = r.grad_inputs
           /\ seqs_' = r.seqs_
           /\ adv_ret' = r.ret
    /\ ens_pc' = "done"
    /\ UNCHANGED <<config, ens_params, x, ens_labels, out, joint>>
    /\ UNCHANGED ens_frame

\* on a rank-3 batch the loss is not a scalar and jax.grad raises
EnsAdvLossRaises ==
    /\ ens_pc = "reduced"
    /\ Len(x.shape) # 2
    /\ ens_pc' = "TypeError"
    /\ UNCHANGED <<config, ens_params, x, ens_labels, out, joint, grad_inputs, seqs_, adv_ret>>
    /\ UNCHANGED ens_frame

EnsNext == EnsForward \/ EnsReduce \/ EnsAdvLoss \/ EnsAdvLossRaises

-----------------------------------------------------------------------------
(* ensemble_train *)

(* The parameters and the optimizer state are real tensors that an Adam     *)
(* update rewrites; the model keeps of each what the claims are about:      *)
(*   params    [id, fin]     id 0 is forward.init's result, id k the result *)
(*                           of the k-th optimizer update; fin: every       *)
(*                           coordinate is finite                           *)
(*   opt_state [count, fin]  count is ScaleByAdamState.count                *)
(*   a loss    [p, seq, label, tile, fin]  _adv_loss_func at the parameters *)
(*                           with id p on the example (seq, label) tiled    *)
(*                           tile times                                     *)
(* Training and validation examples are named by their positions in the     *)
(* arrays passed in.  Whether the gradient of a step is finite depends on   *)
(* the data (a spread of exactly zero makes it NaN) and is drawn per step;  *)
(* a loss at finite parameters is taken to be finite.                       *)

n_step == 3

\* the 5 of jnp.tile(seq, (5, 1)) and jnp.tile(label, 5)
TileCount == 5

\* params = forward.init(key, seqs)
forward_init == [id |-> 0, fin |-> TRUE]

\* opt_state = opt_init(params)
opt_init == [count |-> 0, fin |-> TRUE]

\* _adv_loss_func(forward, params, jnp.tile(seq, (5, 1)), jnp.tile(label, 5)):
\* NaN or Inf in any parameter reaches every member output it feeds
TiledAdvLoss(prm, sq, lb) ==
    [p |-> prm.id, seq |-> sq, label |-> lb, tile |-> TileCount, fin |-> prm.fin]

\* grad = jax.grad(_adv_loss_func, 1)(forward, params, seq_tile, label_tile);
\* gfin: the gradient is finite at these (finite) parameters
TiledGrad(prm, sq, lb, gfin) ==
    [at |-> prm.id, seq |-> sq, label |-> lb, fin |-> prm.fin /\ gfin]

\* updates, opt_state = opt_update(grad, opt_state, params): Adam's moments
\* absorb a non-finite gradient and stay non-finite
opt_update(grad, ost) ==
    [updates   |-> [grad |-> grad, count |-> ost.count, fin |-> ost.fin /\ grad.fin],
     opt_state |-> [count |-> ost.count + 1, fin |-> ost.fin /\ grad.fin]]

\* params = optax.apply_updates(params, updates): params + updates
apply_updates(prm, upd) ==
    [id |-> upd.count + 1, fin |-> prm.fin /\ upd.fin]

\* an update with a non-finite gradient left out
train_step_skip_nonfinite(ost, prm, sq, lb, gfin) ==
    LET g  == TiledGrad(prm, sq, lb, gfin)
        u  == opt_update(g, ost)
        np == IF g.fin THEN apply_updates(prm, u.updates) ELSE prm
        ns == IF g.fin THEN u.opt_state ELSE ost
    IN  [opt_state |-> ns,
         params    |-> np,
         loss      |-> TiledAdvLoss(np, sq, lb),
         call      |-> [p_in |-> prm, s_in |-> ost, grad |-> g, base |-> prm,
                        p_out |-> np, s_out |-> ns]]

\* the loss taken before the update
train_step_loss_first(ost, prm, sq, lb, gfin) ==
    LET g  == TiledGrad(prm, sq, lb, gfin)
        u  == opt_update(g, ost)
        np == apply_updates(prm, u.updates)
    IN  [opt_state |-> u.opt_state,
         params    |-> np,
         loss      |-> TiledAdvLoss(prm, sq, lb),
         call      |-> [p_in |-> prm, s_in |-> ost, grad |-> g, base |-> prm,
                        p_out |-> np, s_out |-> u.opt_state]]

\* every update taken from a fresh optimizer state
train_step_fresh_opt(ost, prm, sq, lb, gfin) ==
    LET g  == TiledGrad(prm, sq, lb, gfin)
        u  == opt_update(g, opt_init)
        np == apply_updates(prm, u.updates)
    IN  [opt_state |-> u.opt_state,
         params    |-> np,
         loss      |-> TiledAdvLoss(np, sq, lb),
         call      |-> [p_in |-> prm, s_in |-> opt_init, grad |-> g, base |-> prm,
                        p_out |-> np, s_out |-> u.opt_state]]

\* train_step(opt_state, params, seq, label); call records what it was given
\* and what it returned
train_step(ost, prm, sq, lb, gfin) ==
    LET g  == TiledGrad(prm, sq, lb, gfin)
        u  == opt_update(g, ost)
        np == apply_updates(prm, u.updates)
    IN  [opt_state |-> u.opt_state,
         params    |-> np,
         loss      |-> TiledAdvLoss(np, sq, lb),
         call      |-> [p_in |-> prm, s_in |-> ost, grad |-> g, base |-> prm,
                        p_out |-> np, s_out |-> u.opt_state]]

\* the outer loop taking its next index from the shared variable i
OuterIndex_shared(pos, iv) == IF pos = 0 THEN 0 ELSE iv + 1

\* for i in range(n_step): the range iterator keeps its own position, whatever
\* the loop body assigns to i
OuterIndex(pos, iv) == pos

\* val_seqs[j], j counted from 1: a list or numpy array raises IndexError past
\* the end, a jax array clamps the index (and has nothing to clamp to if empty)
ValIndexOk(vs, kind, j) == j <= Len(vs) \/ (kind = "jnp" /\ Len(vs) > 0)

ValIndex(vs, j) == vs[Min(j, Len(vs))]

\* the validation loop: val_loss += _adv_loss_func(...) for j in range(len(val_labels))
ValSum(prm, vs, vl) ==
    [j \in 1..Len(vl) |-> TiledAdvLoss(prm, ValIndex(vs, j), vl[j])]

\* val_loss = val_loss / len(val_labels)
ValAverage(terms, n) ==
    [sum |-> terms, div |-> n, fin |-> \A j \in DOMAIN terms : terms[j].fin]

NoLoss == [p |-> 0, seq |-> 0, label |-> 0, tile |-> 0, fin |-> TRUE]

NoValLoss == [sum |-> <<>>, div |-> 0, fin |-> TRUE]

Ids(n) == [k \in 1..n |-> k]

TrInit ==
    /\ tr_pc = "start"
    /\ seqs \in {Ids(n) : n \in 0..MaxTrain}
    /\ labels \in {Ids(n) : n \in 0..MaxTrain}
    /\ val_seqs \in {Ids(n) : n \in 0..MaxVal}
    /\ val_labels \in {Ids(n) : n \in 0..MaxVal}
    /\ val_kind \in (IF Len(val_seqs) < Len(val_labels) THEN {"jnp", "list"} ELSE {"jnp"})
    /\ params = forward_init
    /\ opt_state = opt_init
    /\ losses = <<>>
    /\ val_losses = <<>>
    /\ outer_pos = 0
    /\ inner_pos = 0
    /\ i = 0
    /\ shuffle_seqs = <<>>
    /\ shuffle_labels = <<>>
    /\ seq = 0
    /\ label = 0
    /\ loss = NoLoss
    /\ val_loss = NoValLoss
    /\ log = <<>>
    /\ shuffles = <<>>

\* lines 65-88: the optimizer, forward.init, opt_init, the empty histories
TrainSetup ==
    /\ tr_pc = "start"
    /\ params' = forward_init
    /\ opt_state' = opt_init
    /\ losses' = <<>>
    /\ val_losses' = <<>>
    /\ tr_pc' = "outer"
    /\ UNCHANGED <<seqs, labels, val_seqs, val_labels, val_kind, outer_pos, inner_pos, i,
                   shuffle_seqs, shuffle_labels, seq, label, loss, val_loss, log, shuffles>>
    /\ UNCHANGED tr_frame

\* lines 89-94, an epoch begins: shuffle_in_unison's assert fails
EpochShuffleFails ==
    /\ tr_pc = "outer"
    /\ OuterIndex(outer_pos, i) < n_step
    /\ Len(seqs) # Len(labels)
    /\ i' = OuterIndex(outer_pos, i)
    /\ outer_pos' = OuterIndex(outer_pos, i) + 1
    /\ tr_pc' = "AssertionError"
    /\ UNCHANGED <<seqs, labels, val_seqs, val_labels, val_kind, params, opt_state, losses,
                   val_losses, inner_pos, shuffle_seqs, shuffle_labels, seq, label, loss,
                   val_loss, log, shuffles>>
    /\ UNCHANGED tr_frame

\* lines 89-94, an epoch begins: the training pairs are shuffled
EpochShuffle ==
    /\ tr_pc = "outer"
    /\ OuterIndex(outer_pos, i) < n_step
    /\ Len(seqs) = Len(labels)
    /\ i' = OuterIndex(outer_pos, i)
    /\ outer_pos' = OuterIndex(outer_pos, i) + 1
    /\ \E q \in permutation(Len(seqs)) :
          LET r == shuffle_in_unison(q, seqs, labels)
          IN  /\ shuffle_seqs' = r[1]
              /\ shuffle_labels' = r[2]
              /\ shuffles' = Append(shuffles, r)
    /\ inner_pos' = 0
    /\ tr_pc' = "inner"
    /\ UNCHANGED <<seqs, labels, val_seqs, val_labels, val_kind, params, opt_state, losses,
                   val_losses, seq, label, loss, val_loss, log>>
    /\ UNCHANGED tr_frame

\* line 114: the outer range is exhausted
TrainReturn ==
    /\ tr_pc = "outer"
    /\ OuterIndex(outer_pos, i) >= n_step
    /\ tr_pc' = "done"
    /\ UNCHANGED <<seqs, labels, val_seqs, val_labels, val_kind, params, opt_state, losses,
                   val_losses, outer_pos, inner_pos, i, shuffle_seqs, shuffle_labels,
                   seq, label, loss, val_loss, log, shuffles>>
    /\ UNCHANGED tr_frame

\* lines 95-98: the next example of the epoch and its train_step
InnerTrainStep ==
    /\ tr_pc = "inner"
    /\ inner_pos < Len(shuffle_labels)
    /\ i' = inner_pos
    /\ inner_pos' = inner_pos + 1
    /\ seq' = shuffle_seqs[inner_pos + 1]
    /\ label' = shuffle_labels[inner_pos + 1]
    /\ \E gfin \in (IF params.fin THEN BOOLEAN ELSE {FALSE}) :
          LET r == train_step(opt_state, params, seq', label', gfin)
          IN  /\ opt_state' = r.opt_state
              /\ params' = r.params
              /\ loss' = r.loss
              /\ log' = Append(log, r.call)
    /\ tr_pc' = "val"
    /\ UNCHANGED <<seqs, labels, val_seqs, val_labels, val_kind, losses, val_losses,
                   outer_pos, shuffle_seqs, shuffle_labels, val_loss, shuffles>>
    /\ UNCHANGED tr_frame

\* line 95: the inner range is exhausted
InnerExhausted ==
    /\ tr_pc = "inner"
    /\ inner_pos >= Len(shuffle_labels)
    /\ tr_pc' = "outer"
    /\ UNCHANGED <<seqs, labels, val_seqs, val_labels, val_kind, params, opt_state, losses,
                   val_losses, outer_pos, inner_pos, i, shuffle_seqs, shuffle_labels,
                   seq, label, loss, val_loss, log, shuffles>>
    /\ UNCHANGED tr_frame

\* lines 100-107: the validation pass
ValidationPass ==
    /\ tr_pc = "val"
    /\ \A j \in 1..Len(val_labels) : ValIndexOk(val_seqs, val_kind, j)
    /\ Len(val_labels) > 0
    /\ val_loss' = ValAverage(ValSum(params, val_seqs, val_labels), Len(val_labels))
    /\ tr_pc' = "append"
    /\ UNCHANGED <<seqs, labels, val_seqs, val_labels, val_kind, params, opt_state, losses,
                   val_losses, outer_pos, inner_pos, i, shuffle_seqs, shuffle_labels,
                   seq, label, loss, log, shuffles>>
    /\ UNCHANGED tr_frame

\* line 102: val_seqs[j] past the end of a list
ValidationIndexError ==
    /\ tr_pc = "val"
    /\ \E j \in 1..Len(val_labels) : ~ValIndexOk(val_seqs, val_kind, j)
    /\ tr_pc' = "IndexError"
    /\ UNCHANGED <<seqs, labels, val_seqs, val_labels, val_kind, params, opt_state, losses,
                   val_losses, outer_pos, inner_pos, i, shuffle_seqs, shuffle_labels,
                   seq, label, loss, val_loss, log, shuffles>>
    /\ UNCHANGED tr_frame

\* line 107: 0. / len(val_labels) with no validation labels
ValidationZeroDivision ==
    /\ tr_pc = "val"
    /\ Len(val_labels) = 0
    /\ tr_pc' = "ZeroDivisionError"
    /\ UNCHANGED <<seqs, labels, val_seqs, val_labels, val_kind, params, opt_state, losses,
                   val_losses, outer_pos, inner_pos, i, shuffle_seqs, shuffle_labels,
                   seq, label, loss, val_loss, log, shuffles>>
    /\ UNCHANGED tr_frame

\* line 109: losses.append(loss)
AppendLoss ==
    /\ tr_pc = "append"
    /\ losses' = Append(losses, loss)
    /\ tr_pc' = "append_val"
    /\ UNCHANGED <<seqs, labels, val_seqs, val_labels, val_kind, params, opt_state,
                   val_losses, outer_pos, inner_pos, i, shuffle_seqs, shuffle_labels,
                   seq, label, loss, val_loss, log, shuffles>>
    /\ UNCHANGED tr_frame

\* line 110: val_losses.append(val_loss)
AppendValLoss ==
    /\ tr_pc = "append_val"
    /\ val_losses' = Append(val_losses, val_loss)
    /\ tr_pc' = "inner"
    /\ UNCHANGED <<seqs, labels, val_seqs, val_labels, val_kind, params, opt_state,
                   losses, outer_pos, inner_pos, i, shuffle_seqs, shuffle_labels,
                   seq, label, loss, val_loss, log, shuffles>>
    /\ UNCHANGED tr_frame

TrNext ==
    \/ TrainSetup
    \/ EpochShuffleFails
    \/ EpochShuffle
    \/ TrainReturn
    \/ InnerTrainStep
    \/ InnerExhausted
    \/ ValidationPass
    \/ ValidationIndexError
    \/ ValidationZeroDivision
    \/ AppendLoss
    \/ AppendValLoss

-----------------------------------------------------------------------------
(* bayes_opt *)

(* The candidate is a (1, 1900) tensor; the model keeps [id, fin]: id 0 is  *)
(* init_x, id k the candidate after k optimizer updates.  The optimizer     *)
(* state of jax.experimental.optimizers.adam holds the candidate and its    *)
(* two moments.  An acquisition value is [at, kind]: the candidate it was   *)
(* computed at and whether it is negative, zero, positive or non-finite     *)
(* (bayesian_ei divides by the joint variance, which may be zero).          *)

n_steps == 50

\* init_x = jax.random.normal(key, shape=(1, 1900))
init_x == [id |-> 0, fin |-> TRUE]

\* opt_state = opt_init(init_x)
adam_init(x0) == [x |-> x0, fin |-> TRUE]

\* get_params(opt_state)
get_params(ost) == ost.x

\* opt_update(i, g, opt_state): one Adam step on the candidate; a non-finite
\* gradient makes the moments and the candidate non-finite
adam_update(ix, g, ost) ==
    [x   |-> [id |-> ost.x.id + 1, fin |-> ost.x.fin /\ ost.fin /\ g.fin],
     fin |-> ost.fin /\ g.fin]

LossKinds == {"negative", "zero", "positive", "nonfinite"}

\* the loop stopping at the first non-finite acquisition value
StepsRemain_until_nonfinite(pos, last) == pos < n_steps /\ last.kind # "nonfinite"

\* for step_idx in range(n_steps): nothing but the range ends the loop
StepsRemain(pos, last) == pos < n_steps

\* step(i, opt_state): value and gradient of bayesian_ei at the current
\* candidate, then one update.  kind and gfin are what the data make of the
\* value and of the gradient.
step(ix, ost, kind, gfin) ==
    LET cand == get_params(ost)
        g    == [at |-> cand.id, fin |-> cand.fin /\ gfin]
        nost == adam_update(ix, g, ost)
    IN  [opt_state |-> nost,
         loss      |-> [at |-> cand.id, kind |-> IF cand.fin THEN kind ELSE "nonfinite"],
         call      |-> [i |-> ix, s_in |-> ost, grad |-> g, s_out |-> nost]]

NoCandidate == [id |-> 0, fin |-> TRUE]

NoValue == [at |-> 0, kind |-> "zero"]

BoInit ==
    /\ bo_pc = "start"
    /\ bo_opt_state = adam_init(init_x)
    /\ step_pos = 0
    /\ step_idx = 0
    /\ bo_loss = NoValue
    /\ final_vec = NoCandidate
    /\ bo_log = <<>>

\* lines 130-137
BoSetup ==
    /\ bo_pc = "start"
    /\ bo_opt_state' = adam_init(init_x)
    /\ bo_pc' = "loop"
    /\ UNCHANGED <<step_pos, step_idx, bo_loss, final_vec, bo_log>>
    /\ UNCHANGED bo_frame

\* lines 146-147: one iteration
BoStep ==
    /\ bo_pc = "loop"
    /\ StepsRemain(step_pos, bo_loss)
    /\ step_idx' = step_pos
    /\ step_pos' = step_pos + 1
    /\ \E kind \in LossKinds, gfin \in BOOLEAN :
          /\ get_params(bo_opt_state).fin \/ (kind = "nonfinite" /\ ~gfin)
          /\ LET r == step(step_pos, bo_opt_state, kind, gfin)
             IN  /\ bo_opt_state' = r.opt_state
                 /\ bo_loss' = r.loss
                 /\ bo_log' = Append(bo_log, r.call)
    /\ UNCHANGED <<bo_pc, final_vec>>
    /\ UNCHANGED bo_frame

\* lines 149-150: the range is exhausted
BoReturn ==
    /\ bo_pc = "loop"
    /\ ~StepsRemain(step_pos, bo_loss)
    /\ final_vec' = get_params(bo_opt_state)
    /\ bo_pc' = "done"
    /\ UNCHANGED <<bo_opt_state, step_pos, step_idx, bo_loss, bo_log>>
    /\ UNCHANGED bo_frame

BoNext == BoSetup \/ BoStep \/ BoReturn

-----------------------------------------------------------------------------
(* Specifications *)

ShIdle ==
    /\ sh_pc = "idle"
    /\ a = <<>>
    /\ b = <<>>
    /\ p = <<>>
    /\ sh_ret = NoRet

EnsIdle ==
    /\ ens_pc = "idle"
    /\ config = [shape |-> DefaultShape, model_number |-> 0]
    /\ ens_params = <<>>
    /\ x = NoArray
    /\ ens_labels = <<>>
    /\ out = NoArray
    /\ joint = <<NoArray, NoArray>>
    /\ grad_inputs = NoArray
    /\ seqs_ = NoArray
    /\ adv_ret = NonFiniteLoss

TrIdle ==
    /\ tr_pc = "idle"
    /\ seqs = <<>>
    /\ labels = <<>>
    /\ val_seqs = <<>>
    /\ val_labels = <<>>
    /\ val_kind = "jnp"
    /\ params = forward_init
    /\ opt_state = opt_init
    /\ losses = <<>>
    /\ val_losses = <<>>
    /\ outer_pos = 0
    /\ inner_pos = 0
    /\ i = 0
    /\ shuffle_seqs = <<>>
    /\ shuffle_labels = <<>>
    /\ seq = 0
    /\ label = 0
    /\ loss = NoLoss
    /\ val_loss = NoValLoss
    /\ log = <<>>
    /\ shuffles = <<>>

BoIdle ==
    /\ bo_pc = "idle"
    /\ bo_opt_state = adam_init(init_x)
    /\ step_pos = 0
    /\ step_idx = 0
    /\ bo_loss = NoValue
    /\ final_vec = NoCandidate
    /\ bo_log = <<>>

InitShuffle == ShInit /\ EnsIdle /\ TrIdle /\ BoIdle

SpecShuffle == InitShuffle /\ [][ShNext]_vars

InitEns == EnsInit /\ ShIdle /\ TrIdle /\ BoIdle

SpecEns == InitEns /\ [][EnsNext]_vars

InitTrain == TrInit /\ ShIdle /\ EnsIdle /\ BoIdle

SpecTrain == InitTrain /\ [][TrNext]_vars

InitBO == BoInit /\ ShIdle /\ EnsIdle /\ TrIdle

SpecBO == InitBO /\ [][BoNext]_vars

-----------------------------------------------------------------------------
(* Claims *)

\* C1: for equal-length a and b, shuffle_in_unison returns (a', b') of the
\* input length, and one permutation q of the indices gives a'[k] = a[q[k]]
\* and b'[k] = b[q[k]] for every k: pairs are permuted, never re-paired,
\* dropped or duplicated.
C1_PairedPermutation ==
    sh_pc = "done" =>
        /\ Len(sh_ret[1]) = Len(a)
        /\ Len(sh_ret[2]) = Len(b)
        /\ \E q \in Perms(Len(a)) :
              \A k \in 1..Len(a) :
                  /\ sh_ret[1][k] = a[q[k]]
                  /\ sh_ret[2][k] = b[q[k]]

\* a shuffle that moved something, on pairs that are not all alike
C1_Witness ==
    /\ sh_pc = "done"
    /\ Len(a) = MaxLen
    /\ sh_ret[1] # a
    /\ sh_ret[2] # b
    /\ a # b


\* arr with its j-th leading slice overwritten by v
SetSlice(arr, j, v) ==
    LET inner == Prod(Tail(arr.shape))
    IN  Array(arr.shape,
              [k \in 1..Len(arr.data) |->
                  IF (k - 1) \div inner = j - 1 THEN v.data[((k - 1) % inner) + 1]
                  ELSE arr.data[k]])

\* what the j-th leading slice of arr can be rewritten to in one row: any
\* vector for a slice that is one vector, the slice with any one of its
\* vectors replaced for a slice that is a batch
AltSlices(arr, j) ==
    IF Len(arr.shape) = 2 THEN {Array(<<Len(r)>>, NumSeq(r)) : r \in RowVals}
    ELSE {SetSlice(Index0(arr, j), t, Array(<<Len(r)>>, NumSeq(r))) :
              t \in 1..arr.shape[2], r \in RowVals}

\* C4 as stated: the ensemble applies every member to the same whole batch, so
\* a batch of batch_size vectors gives an output of shape
\* (model_number, batch_size, 2) and no member's output is fixed by one row.
C4_WholeBatchOriginal ==
    (ens_pc = "forwarded" /\ Len(x.shape) = 2) =>
        /\ out.shape = <<config.model_number, x.shape[1], 2>>
        /\ x.shape[1] > 1 =>
              \A k \in 1..config.model_number :
                  \E j \in 1..x.shape[1] : \E v \in AltSlices(x, j) :
                      /\ j # Min(k, x.shape[1])
                      /\ Index0(model_forward(config, ens_params, SetSlice(x, j, v)), k)
                            # Index0(out, k)

\* C4, amended: member k is applied to the k-th leading slice x[k] alone (an
\* index past the end clamped to the last slice) and the results are stacked
\* on a new leading axis.  The output has shape (model_number,) + the shape of
\* one slice with its last axis replaced by 2: (model_number, 2) for a batch
\* of vectors, (model_number, batch_size, 2) only for an input holding one
\* copy of the batch per member.  Rewriting a vector of any other slice of
\* the input leaves member k's output as it was.
C4_MemberReadsOwnSlice ==
    ens_pc = "forwarded" =>
        /\ out.shape = <<config.model_number>> \o Most(Tail(x.shape)) \o <<2>>
        /\ \A k \in 1..config.model_number :
              Index0(out, k) = MLP(ens_params[k], Index0(x, Min(k, x.shape[1])))
        /\ \A j \in 1..x.shape[1] : \A v \in AltSlices(x, j) :
              LET rewritten == model_forward(config, ens_params, SetSlice(x, j, v))
              IN  \A k \in 1..config.model_number :
                      j # Min(k, x.shape[1]) => Index0(rewritten, k) = Index0(out, k)

\* two members, a batch of two different vectors, two different outputs
C4_Witness ==
    /\ ens_pc = "forwarded"
    /\ Len(x.shape) = 2
    /\ config.model_number = 2
    /\ x.shape[1] = 2
    /\ Index0(x, 1) # Index0(x, 2)
    /\ Index0(out, 1) # Index0(out, 2)
    /\ out.shape = <<2, 2>>

\* the entries of arr at position k of every leading slice
AcrossMembers(arr, k) ==
    [m \in 1..arr.shape[1] |-> arr.data[(m - 1) * Prod(Tail(arr.shape)) + k]]

GradFinite == \A k \in DOMAIN grad_inputs.data : IsFinite(grad_inputs.data[k])

GradZero == \A k \in DOMAIN grad_inputs.data : grad_inputs.data[k] = Num(0)

NTrain == Len(labels)

\* C2: after every inner iteration the two histories are equally long, they
\* never outgrow n_step * N, and when ensemble_train returns each holds
\* exactly n_step * N entries, the inner loop's reuse of i notwithstanding.
C2_HistoryLengths ==
    /\ tr_pc \in {"outer", "inner", "done"} => Len(losses) = Len(val_losses)
    /\ Len(losses) <= n_step * NTrain
    /\ Len(val_losses) <= n_step * NTrain
    /\ tr_pc = "done" =>
          /\ Len(losses) = n_step * NTrain
          /\ Len(val_losses) = n_step * NTrain

\* a run over two examples has returned: six entries each, and i holds the
\* inner loop's last index, not the outer loop's
C2_Witness ==
    /\ tr_pc = "done"
    /\ NTrain = 2
    /\ Len(losses) = 6
    /\ Len(val_losses) = 6
    /\ i = 1
    /\ outer_pos = n_step

\* C3 as stated: with training inputs and labels of different lengths, or
\* validation inputs and labels of different lengths, the run fails before
\* any gradient is computed: no train_step has run and the run never returns.
C3_LengthMismatchFailsFast ==
    (Len(seqs) # Len(labels) \/ Len(val_seqs) # Len(val_labels)) =>
        /\ Len(log) = 0
        /\ params = forward_init
        /\ opt_state = opt_init
        /\ tr_pc # "done"

\* the exceptions that end a run of ensemble_train
TrainFailures == {"AssertionError", "IndexError", "ZeroDivisionError"}

\* C7: a non-finite gradient or loss changes nothing in the control flow.
\* The run fails only for the lengths of its inputs and until it fails or
\* returns it always has a next step to take; the update of a step
\* with a non-finite gradient is applied like any other and leaves the
\* parameters non-finite; parameters once non-finite are non-finite after
\* every later update; every loss recorded at non-finite parameters is
\* non-finite; and a run that returns has applied all n_step * N updates
\* and holds n_step * N entries in both histories.
C7_NonFinitePropagates ==
    /\ tr_pc = "AssertionError" => Len(seqs) # Len(labels)
    /\ tr_pc = "IndexError" => Len(val_seqs) < Len(val_labels)
    /\ tr_pc = "ZeroDivisionError" => Len(val_labels) = 0
    /\ tr_pc \notin TrainFailures \cup {"done"} => ENABLED TrNext
    /\ tr_pc = "inner" /\ inner_pos < Len(shuffle_labels) => ENABLED InnerTrainStep
    /\ \A k \in 1..Len(log) :
          /\ ~log[k].grad.fin => ~log[k].p_out.fin
          /\ ~log[k].p_in.fin => ~log[k].p_out.fin
          /\ \A m \in 1..k : ~log[m].p_out.fin => ~log[k].p_out.fin
    /\ Len(log) > 0 => params = log[Len(log)].p_out
    /\ \A k \in 1..Len(losses) : ~log[k].p_out.fin => ~losses[k].fin
    /\ \A k \in 1..Len(val_losses) : ~log[k].p_out.fin => ~val_losses[k].fin
    /\ tr_pc = "done" =>
          /\ Len(log) = n_step * NTrain
          /\ Len(losses) = n_step * NTrain
          /\ Len(val_losses) = n_step * NTrain

\* a run that returned although its second gradient was not finite: the
\* first recorded losses are finite, all the later ones are not
C7_Witness ==
    /\ tr_pc = "done"
    /\ Len(log) = n_step * NTrain
    /\ Len(log) >= 3
    /\ log[1].grad.fin
    /\ ~log[2].grad.fin
    /\ losses[1].fin
    /\ val_losses[1].fin
    /\ \A k \in 2..Len(losses) : ~losses[k].fin /\ ~val_losses[k].fin
    /\ ~params.fin

\* C9: the k-th training loss is the adversarial loss of the example of the
\* k-th train_step, five times tiled, at the parameters that step returned;
\* the k-th validation loss is the average, over all validation examples
\* (validation inputs and labels paired, so of equal number), of their
\* adversarial losses at those same parameters; and it is recorded before
\* the next update is applied.
C9_LossesAfterUpdate ==
    /\ Len(losses) <= Len(log)
    /\ Len(log) <= Len(val_losses) + 1
    /\ Len(val_losses) <= Len(losses)
    /\ \A k \in 1..Len(losses) :
          /\ losses[k] = TiledAdvLoss(log[k].p_out, log[k].grad.seq, log[k].grad.label)
          /\ losses[k].p = log[k].p_in.id + 1
          /\ losses[k].tile = 5
    /\ Len(val_seqs) = Len(val_labels) =>
          \A k \in 1..Len(val_losses) :
              /\ val_losses[k].div = Len(val_labels)
              /\ Len(val_losses[k].sum) = Len(val_labels)
              /\ \A j \in 1..Len(val_labels) :
                    val_losses[k].sum[j] =
                        TiledAdvLoss(log[k].p_out, val_seqs[j], val_labels[j])

\* two validation examples, and a second recorded pair of losses
C9_Witness ==
    /\ Len(val_seqs) = 2
    /\ Len(val_labels) = 2
    /\ Len(val_losses) >= 2
    /\ Len(log) = 3
    /\ losses[2].p = 2
    /\ val_losses[2].sum[2].p = 2
    /\ val_losses[2].sum[2].seq = 2

\* the example of the k-th update of a run over n examples: position
\* (k-1) mod n of the shuffle of epoch (k-1) div n
ShuffledExample(k, n) ==
    LET e == ((k - 1) \div n) + 1
        t == ((k - 1) % n) + 1
    IN  <<shuffles[e][1][t], shuffles[e][2][t]>>

\* C10: parameters and optimizer state are what the last train_step
\* returned (what forward.init and opt_init returned, before the first), so
\* nothing else changes them; the k-th update takes the gradient of the
\* k-th example in shuffled order at the parameters and with the optimizer
\* state the (k-1)-th update left; a run that returns has applied
\* n_step * N updates.
C10_OnlyTrainStepUpdates ==
    /\ params = IF Len(log) = 0 THEN forward_init ELSE log[Len(log)].p_out
    /\ opt_state = IF Len(log) = 0 THEN opt_init ELSE log[Len(log)].s_out
    /\ \A k \in 1..Len(log) :
          /\ log[k].p_in = IF k = 1 THEN forward_init ELSE log[k - 1].p_out
          /\ log[k].s_in = IF k = 1 THEN opt_init ELSE log[k - 1].s_out
          /\ log[k].grad.at = log[k].p_in.id
          /\ log[k].base = log[k].p_in
          /\ log[k].p_out.id = k
          /\ log[k].s_out.count = k
          /\ <<log[k].grad.seq, log[k].grad.label>> = ShuffledExample(k, NTrain)
    /\ Len(log) <= n_step * NTrain
    /\ tr_pc = "done" => Len(log) = n_step * NTrain

\* the second epoch of a run over two examples visits them in the other
\* order than the first, and its updates follow on those of the first
C10_Witness ==
    /\ tr_pc = "done"
    /\ NTrain = 2
    /\ Len(log) = 6
    /\ shuffles[1] # shuffles[2]
    /\ log[2].grad.seq = log[3].grad.seq
    /\ params.id = 6
    /\ opt_state.count = 6

\* C8: bayes_opt makes exactly n_steps iterations and then returns.  Every
\* iteration takes value and gradient at the candidate the optimizer state
\* holds and applies one update to that state; the k-th update carries step
\* index k - 1; whatever the acquisition values were, the loop neither stops
\* before n_steps updates nor goes on after them; the vector returned is the
\* candidate in the optimizer state after the last update.
C8_FixedStepCount ==
    /\ Len(bo_log) = step_pos
    /\ step_pos <= n_steps
    /\ bo_pc = "loop" => ENABLED BoNext
    /\ bo_pc = "loop" /\ step_pos < n_steps => ENABLED BoStep
    /\ \A k \in 1..Len(bo_log) :
          /\ bo_log[k].i = k - 1
          /\ bo_log[k].s_in = IF k = 1 THEN adam_init(init_x) ELSE bo_log[k - 1].s_out
          /\ bo_log[k].grad.at = get_params(bo_log[k].s_in).id
          /\ get_params(bo_log[k].s_out).id = k
    /\ bo_opt_state = IF Len(bo_log) = 0 THEN adam_init(init_x)
                      ELSE bo_log[Len(bo_log)].s_out
    /\ bo_pc = "done" =>
          /\ Len(bo_log) = n_steps
          /\ final_vec = get_params(bo_log[n_steps].s_out)
          /\ final_vec.id = n_steps

\* a run that returned after a non-finite acquisition value at a finite candidate
C8_Witness ==
    /\ bo_pc = "done"
    /\ Len(bo_log) = 50
    /\ bo_log[2].grad.fin
    /\ ~bo_log[3].grad.fin
    /\ final_vec.id = 50
    /\ ~final_vec.fin
    /\ bo_loss.kind = "nonfinite"

=============================================================================
